---- MODULE Spec2Model ----
(***************************************************************************)
(* Canadian tax estimation engine of the AI tax assistant.                 *)
(*                                                                         *)
(* Three code paths compute a tax estimate:                                *)
(*   - the server's calculateCanadianTax (backend/server.js), called by    *)
(*     POST /api/tax/calculate;                                            *)
(*   - the frontend's calculateCanadianTax (components/taxCalculations.tsx)*)
(*   - the chatbot's tax-calculation branch (EnhancedCanadianTaxAI in      *)
(*     backend/server.js).                                                 *)
(*                                                                         *)
(* Amounts of money entered by the user are whole dollars.  The code       *)
(* computes in IEEE doubles; the model computes the same expressions       *)
(* exactly, as a whole number of dollars w plus f ten-thousandths of a     *)
(* dollar (every rate of the code has at most four decimals), so that      *)
(* Math.round acts on the exact value.                                     *)
(***************************************************************************)
EXTENDS Integers, Sequences, FiniteSets, TLC

\* endpoint: the code path that served the last request ("idle" before any)
\* request:  the arguments of that request
\* result:   what the code path returned
VARIABLES endpoint, request, result

\* The server's in-memory storage (used when Firebase is not configured):
\* users:         the users array
\* registrations: the POST /api/auth/register requests awaiting bcrypt.hash
\* chatHistory:   the chatHistory array
VARIABLES users, registrations, chatHistory

\* The two chatbot instances, each with the Maps its constructor creates
VARIABLES canadianTaxAI, enhancedCanadianTaxAI

\* calls:  the number of chatbot questions asked after the warm-up
\* client: the state of the frontend's apiService.makeRequest
VARIABLES calls, client

taxVars == <<endpoint, request, result>>

accountVars == <<users, registrations>>

chatVars == <<chatHistory, canadianTaxAI, enhancedCanadianTaxAI, calls>>

storeVars == <<accountVars, chatVars, client>>

vars == <<taxVars, storeVars>>

(***************************************************************************)
(* Exact decimal arithmetic standing for the double arithmetic of the code *)
(***************************************************************************)
Scale == 10000

Money(w) == [w |-> w, f |-> 0]

\* n * rate, for n whole dollars and a rate given in ten-thousandths
Times(n, rateE4) ==
  LET hi == n \div Scale
      lo == n % Scale
  IN  [w |-> hi * rateE4 + (lo * rateE4) \div Scale,
       f |-> (lo * rateE4) % Scale]

Plus(a, b) ==
  [w |-> a.w + b.w + (a.f + b.f) \div Scale, f |-> (a.f + b.f) % Scale]

\* a - b, for a >= b
Minus(a, b) ==
  IF a.f >= b.f THEN [w |-> a.w - b.w, f |-> a.f - b.f]
                ELSE [w |-> a.w - b.w - 1, f |-> a.f + Scale - b.f]

Leq(a, b) == a.w < b.w \/ (a.w = b.w /\ a.f <= b.f)

MathMin(a, b) == IF Leq(a, b) THEN a ELSE b

MathMax(a, b) == IF Leq(a, b) THEN b ELSE a

\* Math.round of a non-negative amount: halves round up
MathRound(a) == IF 2 * a.f >= Scale THEN a.w + 1 ELSE a.w

\* Math.round of -a, for a non-negative amount a: halves round up, to -a.w
MathRoundNeg(a) == IF 2 * a.f > Scale THEN 0 - (a.w + 1) ELSE 0 - a.w

IntMax(x, y) == IF x >= y THEN x ELSE y

IntMin(x, y) == IF x <= y THEN x ELSE y

(***************************************************************************)
(* Server: calculateCanadianTax (backend/server.js)                        *)
(***************************************************************************)
basicPersonalAmount == 15705

maxCppEarnings == 68500

cppExemption == 3500

\* 0.0595, in ten-thousandths
cppRate == 595

maxEiEarnings == 65700

\* 0.0229, in ten-thousandths
eiRate == 229

\* 31560 in "Math.min(income * 0.18, 31560)"
rrspLimit == 31560

tfsaRoom == 7000

\* Variant: the supplied deduction is subtracted as it is
TotalDeductions_NoFloor(d) == d

\* const totalDeductions = Math.max(deductions, basicPersonalAmount)
TotalDeductions(d) == IntMax(d, basicPersonalAmount)

\* const taxableIncome = Math.max(0, income - totalDeductions)
TaxableIncome(i, d) == IntMax(0, i - TotalDeductions(d))

\* Upper bounds of the federal brackets, in the order of the if-chain
FederalThresholds == <<55867, 111733, 173205, 246752>>

\* Index (1..5) of the branch of the federal if-chain taken for t
FederalBracketIndex(t) ==
  IF t <= FederalThresholds[1] THEN 1
  ELSE IF t <= FederalThresholds[2] THEN 2
  ELSE IF t <= FederalThresholds[3] THEN 3
  ELSE IF t <= FederalThresholds[4] THEN 4
  ELSE 5

\* The right-hand side of branch k of the federal if-chain, evaluated at t
FederalBracketFormula(k, t) ==
  CASE k = 1 -> Times(t, 1500)
    [] k = 2 -> Plus(Money(8380), Times(t - 55867, 2050))
    [] k = 3 -> Plus(Money(19822), Times(t - 111733, 2600))
    [] k = 4 -> Plus(Money(35814), Times(t - 173205, 2900))
    [] OTHER -> Plus(Money(57168), Times(t - 246752, 3300))

\* let federalTax = 0; if (taxableIncome > 0) { if ... else ... }
ServerFederalTax(t) ==
  IF t > 0 THEN FederalBracketFormula(FederalBracketIndex(t), t)
           ELSE Money(0)

\* Variant: the flat 5.05% of the chatbot above Ontario's personal amount
ServerProvincialTax_FlatRate(t, p) ==
  IF p = "ON" /\ t > 11865 THEN Times(t - 11865, 505) ELSE Money(0)

\* let provincialTax = 0; if (province === 'ON' && taxableIncome > 11865) ...
ServerProvincialTax(t, p) ==
  IF p = "ON" /\ t > 11865
  THEN IF t <= 51446 THEN Times(t - 11865, 505)
       ELSE IF t <= 102894 THEN Plus(Money(2000), Times(t - 51446, 915))
       ELSE IF t <= 150000 THEN Plus(Money(6708), Times(t - 102894, 1116))
       ELSE IF t <= 220000 THEN Plus(Money(11966), Times(t - 150000, 1216))
       ELSE Plus(Money(20478), Times(t - 220000, 1316))
  ELSE Money(0)

\* Variant: the contribution is not capped
ServerCpp_NoCap(i) == Times(IntMax(0, i - cppExemption), cppRate)

\* Variant: the exemption is taken as a floor of the earnings instead of
\* being subtracted from them
ServerCpp_ExemptionAsFloor(i) ==
  MathMin(Times(IntMax(cppExemption, i), cppRate),
          Times(maxCppEarnings - cppExemption, cppRate))

\* Math.min(Math.max(0, income - cppExemption) * cppRate,
\*          (maxCppEarnings - cppExemption) * cppRate)
ServerCpp(i) ==
  MathMin(Times(IntMax(0, i - cppExemption), cppRate),
          Times(maxCppEarnings - cppExemption, cppRate))

\* Math.min(income * eiRate, maxEiEarnings * eiRate)
ServerEi(i) == MathMin(Times(i, eiRate), Times(maxEiEarnings, eiRate))

\* Variant: the room is 18% of income without the maximum
RrspRoom_NoCap(i) == Times(i, 1800)

\* Math.min(income * 0.18, 31560)
RrspRoom(i) == MathMin(Times(i, 1800), Money(rrspLimit))

\* getMarginalRate, in tenths of a percent (20.5 is 205)
getMarginalRate(t) ==
  IF t <= 55867 THEN 150
  ELSE IF t <= 111733 THEN 205
  ELSE IF t <= 173205 THEN 260
  ELSE IF t <= 246752 THEN 290
  ELSE 330

\* Variant: the effective rate cut off after two decimals, not rounded
EffectiveRate_Truncated(total, i) ==
  IF i > 0
  THEN LET d1 == total.f \div 1000
           d2 == (total.f \div 100) % 10
           d3 == (total.f \div 10) % 10
           d4 == total.f % 10
           r0 == total.w % i
           r1 == (r0 * 10 + d1) % i
           r2 == (r1 * 10 + d2) % i
           r3 == (r2 * 10 + d3) % i
       IN  (total.w \div i) * Scale
           + ((r0 * 10 + d1) \div i) * 1000
           + ((r1 * 10 + d2) \div i) * 100
           + ((r2 * 10 + d3) \div i) * 10
           + ((r3 * 10 + d4) \div i)
  ELSE 0

\* Math.round((total / income) * 100 * 100): the effective rate in
\* hundredths of a percent, by long division over the four decimals of total
EffectiveRate(total, i) ==
  IF i > 0
  THEN LET d1 == total.f \div 1000
           d2 == (total.f \div 100) % 10
           d3 == (total.f \div 10) % 10
           d4 == total.f % 10
           q0 == total.w \div i
           r0 == total.w % i
           q1 == (r0 * 10 + d1) \div i
           r1 == (r0 * 10 + d1) % i
           q2 == (r1 * 10 + d2) \div i
           r2 == (r1 * 10 + d2) % i
           q3 == (r2 * 10 + d3) \div i
           r3 == (r2 * 10 + d3) % i
           q4 == (r3 * 10 + d4) \div i
           r4 == (r3 * 10 + d4) % i
           q  == q0 * Scale + q1 * 1000 + q2 * 100 + q3 * 10 + q4
       IN  IF 2 * r4 >= i THEN q + 1 ELSE q
  ELSE 0

\* rrspRoom * (getMarginalRate(taxableIncome) / 100), in 1/100000 dollars
\* (rrspRoom has two decimals, the rate three)
RrspSavingsE5(t, rrspRoom) ==
  (rrspRoom.w * 100 + rrspRoom.f \div 100) * getMarginalRate(t)

generateTaxOptimizations(i, t, rrspRoom, tfsa) ==
  LET rrspFires == Leq(Money(0), rrspRoom) /\ rrspRoom # Money(0)
      rrspE5    == IF rrspFires THEN RrspSavingsE5(t, rrspRoom) ELSE 0
      \* tfsaRoom * 0.06 * 0.25, in 1/100000 dollars
      tfsaE5    == IF tfsa > 0 THEN tfsa * 1500 ELSE 0
      homeE5    == IF i > 30000 THEN 400 * 100000 ELSE 0
      medE5     == IF i > 40000 THEN 200 * 100000 ELSE 0
      sumE5     == rrspE5 + tfsaE5 + homeE5 + medE5
      a1 == IF rrspFires
            THEN <<[rule |-> "rrsp", amount |-> (rrspE5 + 50000) \div 100000]>>
            ELSE <<>>
      a2 == IF tfsa > 0 THEN <<[rule |-> "tfsa", amount |-> tfsa]>> ELSE <<>>
      a3 == IF i > 30000 THEN <<[rule |-> "homeOffice", amount |-> 0]>> ELSE <<>>
      a4 == IF i > 40000 THEN <<[rule |-> "medical", amount |-> 1445]>> ELSE <<>>
  IN  [potentialSavings   |-> (sumE5 + 50000) \div 100000,
       recommendedActions |-> a1 \o a2 \o a3 \o a4,
       confidence         |-> 94]

\* Variant: the total is the sum of the four rounded amounts
calculateCanadianTax_SumOfRounded(i, d, fs, p) ==
  LET t      == TaxableIncome(i, d)
      fed    == ServerFederalTax(t)
      prov   == ServerProvincialTax(t, p)
      cpp    == ServerCpp(i)
      ei     == ServerEi(i)
      total  == Plus(Plus(Plus(fed, prov), cpp), ei)
      withh  == Times(i, 1800)
      refund == IF Leq(total, withh) THEN Minus(withh, total) ELSE Money(0)
      rrsp   == RrspRoom(i)
  IN  [tax                 |-> MathRound(fed) + MathRound(prov)
                                 + MathRound(cpp) + MathRound(ei),
       federalTax          |-> MathRound(fed),
       provincialTax       |-> MathRound(prov),
       cppContribution     |-> MathRound(cpp),
       eiContribution      |-> MathRound(ei),
       refund              |-> MathRound(refund),
       effectiveRate       |-> EffectiveRate(total, i),
       taxableIncome       |-> t,
       basicPersonalAmount |-> basicPersonalAmount,
       rrspRoom            |-> MathRound(rrsp),
       tfsaRoom            |-> tfsaRoom,
       marginalRate        |-> getMarginalRate(t),
       aiOptimizations     |-> generateTaxOptimizations(i, t, rrsp, tfsaRoom)]

\* Variant: a joint return gets twice the basic personal amount
calculateCanadianTax_JointAmount(i, d, fs, p) ==
  LET t      == IF fs = "married_joint"
                THEN IntMax(0, i - IntMax(d, 2 * basicPersonalAmount))
                ELSE TaxableIncome(i, d)
      fed    == ServerFederalTax(t)
      prov   == ServerProvincialTax(t, p)
      cpp    == ServerCpp(i)
      ei     == ServerEi(i)
      total  == Plus(Plus(Plus(fed, prov), cpp), ei)
      withh  == Times(i, 1800)
      refund == IF Leq(total, withh) THEN Minus(withh, total) ELSE Money(0)
      rrsp   == RrspRoom(i)
  IN  [tax                 |-> MathRound(total),
       federalTax          |-> MathRound(fed),
       provincialTax       |-> MathRound(prov),
       cppContribution     |-> MathRound(cpp),
       eiContribution      |-> MathRound(ei),
       refund              |-> MathRound(refund),
       effectiveRate       |-> EffectiveRate(total, i),
       taxableIncome       |-> t,
       basicPersonalAmount |-> basicPersonalAmount,
       rrspRoom            |-> MathRound(rrsp),
       tfsaRoom            |-> tfsaRoom,
       marginalRate        |-> getMarginalRate(t),
       aiOptimizations     |-> generateTaxOptimizations(i, t, rrsp, tfsaRoom)]

calculateCanadianTax(i, d, fs, p) ==
  LET t      == TaxableIncome(i, d)
      fed    == ServerFederalTax(t)
      prov   == ServerProvincialTax(t, p)
      cpp    == ServerCpp(i)
      ei     == ServerEi(i)
      totalTax == Plus(fed, prov)
      total  == Plus(Plus(totalTax, cpp), ei)
      withh  == Times(i, 1800)
      refund == IF Leq(total, withh) THEN Minus(withh, total) ELSE Money(0)
      rrsp   == RrspRoom(i)
  IN  [tax                 |-> MathRound(total),
       federalTax          |-> MathRound(fed),
       provincialTax       |-> MathRound(prov),
       cppContribution     |-> MathRound(cpp),
       eiContribution      |-> MathRound(ei),
       refund              |-> MathRound(refund),
       effectiveRate       |-> EffectiveRate(total, i),
       taxableIncome       |-> t,
       basicPersonalAmount |-> basicPersonalAmount,
       rrspRoom            |-> MathRound(rrsp),
       tfsaRoom            |-> tfsaRoom,
       marginalRate        |-> getMarginalRate(t),
       aiOptimizations     |-> generateTaxOptimizations(i, t, rrsp, tfsaRoom)]

(***************************************************************************)
(* Frontend: components/taxCalculations.tsx (and its copy in App.tsx)      *)
(***************************************************************************)
\* JavaScript's Infinity, the max of the top bracket
Infinity == 2147483647

\* TAX_BRACKETS_2024.federal, rates in ten-thousandths
TAX_BRACKETS_2024_federal ==
  << [min |-> 0,      max |-> 55867,    rate |-> 1500],
     [min |-> 55867,  max |-> 111733,   rate |-> 2050],
     [min |-> 111733, max |-> 173205,   rate |-> 2600],
     [min |-> 173205, max |-> 246752,   rate |-> 2900],
     [min |-> 246752, max |-> Infinity, rate |-> 3300] >>

\* PROVINCIAL_TAX_RATES, in ten-thousandths
PROVINCIAL_TAX_RATES ==
  [ontario |-> 1000, quebec |-> 1200, british_columbia |-> 950,
   alberta |-> 800, manitoba |-> 1050, saskatchewan |-> 950,
   nova_scotia |-> 1100, new_brunswick |-> 1050, newfoundland |-> 1150,
   pei |-> 1050, northwest_territories |-> 900, nunavut |-> 900,
   yukon |-> 850]

\* bracket.max - bracket.min, where Infinity - x is Infinity
BracketSpan(bracket) ==
  IF bracket.max = Infinity THEN Infinity ELSE bracket.max - bracket.min

\* The for-loop of calculateFederalTax from bracket k on
RECURSIVE FederalLoop(_, _, _)
FederalLoop(k, tax, remainingIncome) ==
  IF k > Len(TAX_BRACKETS_2024_federal) \/ remainingIncome <= 0
  THEN tax
  ELSE LET bracket == TAX_BRACKETS_2024_federal[k]
           taxableAtBracket == IntMin(remainingIncome, BracketSpan(bracket))
       IN  FederalLoop(k + 1,
                       Plus(tax, Times(taxableAtBracket, bracket.rate)),
                       remainingIncome - taxableAtBracket)

\* taxCalculations.tsx calculateFederalTax
calculateFederalTax(t) == FederalLoop(1, Money(0), t)

\* The for-loop of App.tsx calculateFederalTax from bracket k on
RECURSIVE AppFederalLoop(_, _, _)
AppFederalLoop(k, tax, remainingIncome) ==
  IF k > Len(TAX_BRACKETS_2024_federal) \/ remainingIncome <= 0
  THEN tax
  ELSE LET bracket == TAX_BRACKETS_2024_federal[k]
           bracketWidth == IF bracket.max = Infinity
                           THEN remainingIncome
                           ELSE bracket.max - bracket.min
           taxableAtBracket == IntMin(remainingIncome, bracketWidth)
       IN  AppFederalLoop(k + 1,
                          Plus(tax, Times(taxableAtBracket, bracket.rate)),
                          remainingIncome - taxableAtBracket)

\* App.tsx calculateFederalTax: return Math.max(0, tax)
AppCalculateFederalTax(t) == MathMax(Money(0), AppFederalLoop(1, Money(0), t))

\* Math.max(0, Math.min(income, maxEarnings) - exemption) * rate
calculateCPP(i) ==
  Times(IntMax(0, IntMin(i, maxCppEarnings) - cppExemption), cppRate)

\* Math.min(income, maxEarnings) * rate
calculateEI(i) == Times(IntMin(i, maxEiEarnings), eiRate)

\* PROVINCIAL_TAX_RATES[province] || PROVINCIAL_TAX_RATES.ontario
calculateProvincialTax(t, p) ==
  LET rate == IF p \in DOMAIN PROVINCIAL_TAX_RATES
              THEN PROVINCIAL_TAX_RATES[p]
              ELSE PROVINCIAL_TAX_RATES.ontario
  IN  Times(t, rate)

\* parseFloat(text) || 0 of a form field: a field is <<>> when it is blank
\* and <<n>> when it holds the digits of n
ParseFloatOrZero(field) == IF Len(field) = 0 THEN 0 ELSE field[1]

\* taxCalculations.tsx calculateCanadianTax(taxFormData, province)
FrontendCalculateCanadianTax(taxFormData, p) ==
  LET i      == ParseFloatOrZero(taxFormData.income)
      d      == ParseFloatOrZero(taxFormData.deductions)
      totalDeductions == IntMax(d, basicPersonalAmount)
      t      == IntMax(0, i - totalDeductions)
      fed    == calculateFederalTax(t)
      prov   == calculateProvincialTax(t, p)
      cpp    == calculateCPP(i)
      ei     == calculateEI(i)
      total  == Plus(Plus(Plus(fed, prov), cpp), ei)
      withh  == Times(i, 1800)
      refund == IF Leq(total, withh) THEN Minus(withh, total) ELSE Money(0)
  IN  [tax             |-> MathRound(total),
       taxableIncome   |-> t,
       \* unrounded (total / income) * 100, kept as the exact fraction
       effectiveRate   |-> IF i > 0 THEN [total |-> total, income |-> i]
                                    ELSE [total |-> Money(0), income |-> 1],
       estimatedRefund |-> MathRound(refund),
       federalTax      |-> MathRound(fed),
       provincialTax   |-> MathRound(prov),
       cppContribution |-> MathRound(cpp),
       eiContribution  |-> MathRound(ei)]

\* App.tsx getTaxBracketInfo(income): the first bracket with
\* income >= min and (max === Infinity or income < max); rates in
\* ten-thousandths, marginalRate in tenths of a percent
getTaxBracketInfo(i) ==
  LET brackets == TAX_BRACKETS_2024_federal
      matches  == {k \in 1..Len(brackets) :
                     /\ i >= brackets[k].min
                     /\ (brackets[k].max = Infinity \/ i < brackets[k].max)}
      found    == matches # {}
      idx      == IF found
                  THEN CHOOSE k \in matches : \A j \in matches : k <= j
                  ELSE 1
      federalBracket == brackets[idx]
  IN  [federalBracket |-> federalBracket,
       \* Number(((federalBracket.rate + 0.10) * 100).toFixed(1))
       marginalRate   |-> (federalBracket.rate + 1000) \div 10,
       nextBracketAt  |-> IF found /\ idx < Len(brackets)
                          THEN brackets[idx + 1].min
                          ELSE Infinity]

(***************************************************************************)
(* Chatbot: EnhancedCanadianTaxAI helpers (backend/server.js)              *)
(***************************************************************************)
\* The literal caps of calculateCppEi
cppMaxContribution == 4055

eiMaxContribution == 1505

\* basicPersonal of getProvinceInfo's provinceData
provinceData ==
  [ON |-> 11865, BC |-> 11980, AB |-> 21003, SK |-> 17661, MB |-> 15000,
   QC |-> 18056, NB |-> 12458, NS |-> 8744, PE |-> 12500, NL |-> 10382,
   YT |-> 15705, NT |-> 16593, NU |-> 18767]

\* provinceData[province] || provinceData['ON']
getProvinceInfo(p) ==
  IF p \in DOMAIN provinceData THEN [code |-> p, basicPersonal |-> provinceData[p]]
                               ELSE [code |-> "ON", basicPersonal |-> provinceData.ON]

\* rates of the chatbot's calculateProvincialTax, in ten-thousandths
chatRates ==
  [ON |-> 505, BC |-> 506, AB |-> 1000, SK |-> 1050, MB |-> 1075,
   QC |-> 1400, NB |-> 950, NS |-> 879, PE |-> 980, NL |-> 870,
   YT |-> 640, NT |-> 590, NU |-> 400]

getMarginalTaxRate(i) ==
  IF i <= 55867 THEN 150
  ELSE IF i <= 111733 THEN 205
  ELSE IF i <= 173205 THEN 260
  ELSE IF i <= 246752 THEN 290
  ELSE 330

\* EnhancedCanadianTaxAI.calculateFederalTax(income)
ChatCalculateFederalTax(i) ==
  LET t == IntMax(0, i - 15705)
  IN  IF t <= 55867 THEN Times(t, 1500)
      ELSE IF t <= 111733 THEN Plus(Money(8380), Times(t - 55867, 2050))
      ELSE IF t <= 173205 THEN Plus(Money(19822), Times(t - 111733, 2600))
      ELSE IF t <= 246752 THEN Plus(Money(35814), Times(t - 173205, 2900))
      ELSE Plus(Money(57168), Times(t - 246752, 3300))

\* EnhancedCanadianTaxAI.calculateProvincialTax(income, province)
ChatCalculateProvincialTax(i, p) ==
  LET provinceInfo == getProvinceInfo(p)
      t == IntMax(0, i - provinceInfo.basicPersonal)
      rate == IF p \in DOMAIN chatRates THEN chatRates[p] ELSE chatRates.ON
  IN  Times(t, rate)

\* EnhancedCanadianTaxAI.calculateCppEi(income)
calculateCppEi(i) ==
  [cpp |-> MathMin(Times(IntMax(0, i - 3500), 595), Money(cppMaxContribution)),
   ei  |-> MathMin(Times(i, 229), Money(eiMaxContribution))]

\* The tax-calculation branch of getEnhancedRuleBasedResponse: the figures
\* it writes into the message
ChatTaxCalculation(i, p) ==
  IF i > 0
  THEN LET fed   == ChatCalculateFederalTax(i)
           prov  == ChatCalculateProvincialTax(i, p)
           cppEi == calculateCppEi(i)
           totalTax == Plus(Plus(Plus(fed, prov), cppEi.cpp), cppEi.ei)
       IN  [responseType    |-> "tax_calculation",
            provinceName    |-> getProvinceInfo(p).code,
            federalTax      |-> MathRound(fed),
            provincialTax   |-> MathRound(prov),
            cppContribution |-> MathRound(cppEi.cpp),
            eiContribution  |-> MathRound(cppEi.ei),
            totalTax        |-> MathRound(totalTax),
            netIncome       |-> IF Leq(totalTax, Money(i))
                                THEN MathRound(Minus(Money(i), totalTax))
                                ELSE MathRoundNeg(Minus(totalTax, Money(i))),
            marginalRate    |-> getMarginalTaxRate(i)]
  ELSE [responseType |-> "tax_calculation_prompt",
        provinceName |-> getProvinceInfo(p).code]

(***************************************************************************)
(* Requests                                                                *)
(***************************************************************************)
\* Offsets above each bracket threshold that the requests cover
Delta == 1

\* The "huge income" of the cap properties
HugeIncome == 10000000

\* A deduction above the basic personal amount
LargeDeduction == basicPersonalAmount + 4295

\* Taxable incomes at which a branch of the federal or Ontario if-chain ends
TaxablePoints ==
  {FederalThresholds[k] : k \in 1..4} \cup {11865, 51446, 102894, 150000, 220000}

Incomes ==
  {0, 100, 1000, cppExemption, cppExemption + 1, basicPersonalAmount, 30000, 40001,
   maxEiEarnings, maxCppEarnings, 75000}
  \cup {t + e + k : t \in TaxablePoints,
                     e \in {basicPersonalAmount, LargeDeduction}, k \in 0..Delta}
  \cup {HugeIncome + k * HugeIncome : k \in 0..Delta}

Deductions == {0, basicPersonalAmount, LargeDeduction}

FilingStatuses == {"single", "married_joint", "married_separate", "head_of_household"}

\* Province codes sent to the server and the chatbot; "XX" is not a province
Provinces == {"ON", "AB", "XX"}

\* Province keys passed to the frontend calculator; "XX" is not a key
FrontendProvinces == {"ontario", "alberta", "XX"}

\* Contents of a form field: blank, or the digits of an amount
Fields(S) == {<<>>} \cup {<<n>> : n \in S}

NoRequest == [kind |-> "none"]

NoResult == [kind |-> "none"]

(***************************************************************************)
(* In-memory storage and the chatbot instances, as the module's top level  *)
(* and the constructors create them                                        *)
(***************************************************************************)
\* Bound: the registrations accepted for processing
MaxUsers == 2

\* Requests of POST /api/auth/register that can be in flight at a time
RegistrationSlots == 1..MaxUsers

NoRegistration == [kind |-> "none"]

\* new Map(): a function whose domain is the set of keys present
EmptyMap == <<>>

\* Map.get(k) || d
MapGet(map, k, d) == IF k \in DOMAIN map THEN map[k] ELSE d

\* Map.set(k, v)
MapSet(map, k, v) ==
  [j \in DOMAIN map \cup {k} |-> IF j = k THEN v ELSE map[j]]

\* Map.delete(k)
MapDelete(map, k) == [j \in DOMAIN map \ {k} |-> map[j]]

Init ==
  /\ endpoint = "idle"
  /\ request = NoRequest
  /\ result = NoResult
  /\ users = <<>>
  /\ registrations = [r \in RegistrationSlots |-> NoRegistration]
  /\ chatHistory = <<>>
  /\ canadianTaxAI = [conversationHistory |-> EmptyMap,
                      userProfiles |-> EmptyMap]
  /\ enhancedCanadianTaxAI = [conversationHistory |-> EmptyMap,
                              userProfiles |-> EmptyMap,
                              responseCache |-> <<>>]
  /\ calls = 0
  /\ client = [pc |-> "idle", retries |-> 0, attempts |-> <<>>]

\* POST /api/tax/calculate with a valid body, for a user whose province is p
PostTaxCalculate(i, d, fs, p) ==
  /\ endpoint = "idle"
  /\ endpoint' = "server"
  /\ request' = [income |-> i, deductions |-> d, filingStatus |-> fs,
                 province |-> p]
  /\ result' = calculateCanadianTax(i, d, fs, p)
  /\ UNCHANGED storeVars

\* The frontend computes the estimate of a tax form locally
FrontendCalculate(fi, fd, p) ==
  /\ endpoint = "idle"
  /\ endpoint' = "frontend"
  /\ request' = [taxFormData |-> [income |-> fi, deductions |-> fd],
                 province |-> p]
  /\ result' = FrontendCalculateCanadianTax(request'.taxFormData, p)
  /\ UNCHANGED storeVars

\* The chatbot answers a "calculate my tax" message for a profile
ChatCalculate(i, p) ==
  /\ endpoint = "idle"
  /\ endpoint' = "chatbot"
  /\ request' = [income |-> i, province |-> p]
  /\ result' = ChatTaxCalculation(i, p)
  /\ UNCHANGED storeVars

(***************************************************************************)
(* Province comparison: POST /api/tax/compare-provinces, called by the     *)
(* TaxCalculator component's compareProvinces.  The handler is the         *)
(* ProvinceComparator of the specification: one calculation per province,  *)
(* sorted ascending by total tax, first is best, last is worst.            *)
(***************************************************************************)
\* Fewest and most provinces a comparison accepts
minSize == 2

maxSize == 5

\* Province lists sent for comparison; the first is the component's
\* selectedProvinces
ProvinceLists ==
  { <<"ON", "BC", "AB", "QC">>, <<"QC", "AB", "BC", "ON">>, <<"AB", "ON">>,
    <<"BC", "ON", "XX">>, <<"ON", "BC", "AB", "QC", "MB">>,
    <<"ON">>, <<"ON", "BC", "AB", "QC", "MB", "SK">> }

\* Variant: an entry goes before the entries with a smaller total tax
InsertByTotalTax_Descending(sorted, e) ==
  LET n == Cardinality({k \in 1..Len(sorted) : sorted[k].totalTax >= e.totalTax})
  IN  SubSeq(sorted, 1, n) \o <<e>> \o SubSeq(sorted, n + 1, Len(sorted))

\* One step of an ascending stable sort: e goes after the entries whose
\* total tax is at most its own
InsertByTotalTax(sorted, e) ==
  LET n == Cardinality({k \in 1..Len(sorted) : sorted[k].totalTax <= e.totalTax})
  IN  SubSeq(sorted, 1, n) \o <<e>> \o SubSeq(sorted, n + 1, Len(sorted))

RECURSIVE SortByTotalTax(_)
SortByTotalTax(entries) ==
  IF Len(entries) = 0 THEN <<>>
  ELSE InsertByTotalTax(SortByTotalTax(SubSeq(entries, 1, Len(entries) - 1)),
                        entries[Len(entries)])

\* The entry of one province: the calculation for the same income,
\* deductions and filing status
ComparisonEntry(i, d, fs, p) ==
  LET calc == calculateCanadianTax(i, d, fs, p)
  IN  [province      |-> p,
       totalTax      |-> calc.tax,
       federalTax    |-> calc.federalTax,
       provincialTax |-> calc.provincialTax,
       netIncome     |-> i - calc.tax,
       marginalRate  |-> calc.marginalRate]

\* compare(input, provinces)
CompareProvincesResult(i, d, fs, provinces) ==
  IF Len(provinces) < minSize \/ Len(provinces) > maxSize
  THEN [error |-> "InvalidInputError"]
  ELSE LET entries == [k \in 1..Len(provinces) |->
                         ComparisonEntry(i, d, fs, provinces[k])]
           sorted  == SortByTotalTax(entries)
           best    == sorted[1]
           worst   == sorted[Len(sorted)]
       IN  [error       |-> "none",
            comparisons |-> sorted,
            summary     |-> [income           |-> i,
                             bestProvince     |-> best,
                             worstProvince    |-> worst,
                             potentialSavings |-> worst.totalTax - best.totalTax]]

\* TaxCalculator.compareProvinces: nothing is sent without a positive
\* income; the answer becomes comparisonData
CompareProvinces(i, d, fs, provinces) ==
  /\ endpoint = "idle"
  /\ i > 0
  /\ endpoint' = "compare"
  /\ request' = [income |-> i, deductions |-> d, filingStatus |-> fs,
                 provinces |-> provinces]
  /\ result' = CompareProvincesResult(i, d, fs, provinces)
  /\ UNCHANGED storeVars

(***************************************************************************)
(* Request bodies and their validation (express-validator chains of        *)
(* POST /api/tax/calculate and POST /api/ai/optimizations)                 *)
(***************************************************************************)
\* A text is the sequence of its characters
DigitChars == <<"0", "1", "2", "3", "4", "5", "6", "7", "8", "9">>

IsDigit(c) == \E k \in 1..Len(DigitChars) : DigitChars[k] = c

AllDigits(text) == \A k \in 1..Len(text) : IsDigit(text[k])

\* String(n) for a whole number n >= 0
RECURSIVE Digits(_)
Digits(n) ==
  IF n < 10 THEN <<DigitChars[n + 1]>>
            ELSE Digits(n \div 10) \o <<DigitChars[(n % 10) + 1]>>

\* The value of a sequence of digits
RECURSIVE DigitsValue(_)
DigitsValue(text) ==
  IF Len(text) = 0 THEN 0
  ELSE DigitsValue(SubSeq(text, 1, Len(text) - 1)) * 10
       + (CHOOSE k \in 0..9 : DigitChars[k + 1] = text[Len(text)])

HasSign(text) == Len(text) > 0 /\ text[1] \in {"+", "-"}

Unsigned(text) == IF HasSign(text) THEN Tail(text) ELSE text

\* isNumeric(): the text matches ^[+-]?([0-9]*[.])?[0-9]+$
isNumeric(text) ==
  LET u == Unsigned(text)
  IN  \/ Len(u) > 0 /\ AllDigits(u)
      \/ \E k \in 1..Len(u) :
           /\ u[k] = "."
           /\ k < Len(u)
           /\ AllDigits(SubSeq(u, 1, k - 1))
           /\ AllDigits(SubSeq(u, k + 1, Len(u)))

\* parseFloat of a text holding a whole number with an optional sign
parseFloat(text) ==
  IF HasSign(text) /\ text[1] = "-" THEN 0 - DigitsValue(Unsigned(text))
                                    ELSE DigitsValue(Unsigned(text))

\* isIn(['single', 'married_joint', 'married_separate', 'head_of_household'])
isInFilingStatuses(fs) == fs \in FilingStatuses

\* validationResult(req).isEmpty()
BodyIsValid(body) ==
  /\ isNumeric(body.income)
  /\ isNumeric(body.deductions)
  /\ isInFilingStatuses(body.filingStatus)

\* Texts sent as income: every amount of Incomes, a negative amount, and
\* texts that are not numbers
IncomeTexts ==
  {Digits(i) : i \in Incomes}
  \cup {<<"-">> \o Digits(5000), <<"a", "b", "c">>, <<>>, <<"1", "2", "e">>}

DeductionTexts ==
  {Digits(d) : d \in Deductions} \cup {<<"-">> \o Digits(100), <<"x">>}

FilingStatusTexts == FilingStatuses \cup {"widowed"}

Bodies ==
  [income : IncomeTexts, deductions : DeductionTexts,
   filingStatus : FilingStatusTexts]

ValidationErrors == [status |-> 400, success |-> FALSE]

\* The whole handler of POST /api/tax/calculate for a raw body
PostTaxCalculateBody(body, p) ==
  /\ endpoint = "idle"
  /\ endpoint' = "api_calculate"
  /\ request' = [body |-> body, province |-> p]
  /\ result' =
       IF ~BodyIsValid(body)
       THEN ValidationErrors
       ELSE [status |-> 200, success |-> TRUE,
             data |-> calculateCanadianTax(parseFloat(body.income),
                                           parseFloat(body.deductions),
                                           body.filingStatus, p)]
  /\ UNCHANGED storeVars

\* The optimizations list built by POST /api/ai/optimizations
OptimizationsList(incomeValue, taxCalc) ==
  << [category |-> "RRSP Contribution",
      optimizedAmount |-> taxCalc.rrspRoom,
      \* Math.round(taxCalc.rrspRoom * (taxCalc.marginalRate / 100))
      savings |-> (taxCalc.rrspRoom * taxCalc.marginalRate + 500) \div 1000],
     [category |-> "TFSA Utilization",
      optimizedAmount |-> taxCalc.tfsaRoom,
      \* Math.round(taxCalc.tfsaRoom * 0.06 * 0.25)
      savings |-> (taxCalc.tfsaRoom * 15 + 500) \div 1000] >>
  \o (IF incomeValue > 30000
      THEN << [category |-> "Home Office Deduction",
               optimizedAmount |-> 400,
               \* Math.round(400 * (taxCalc.marginalRate / 100))
               savings |-> (400 * taxCalc.marginalRate + 500) \div 1000] >>
      ELSE <<>>)

\* The whole handler of POST /api/ai/optimizations for a raw body
PostOptimizations(body, p) ==
  /\ endpoint = "idle"
  /\ endpoint' = "api_optimizations"
  /\ request' = [body |-> body, province |-> p]
  /\ result' =
       IF ~BodyIsValid(body)
       THEN ValidationErrors
       ELSE LET taxCalc == calculateCanadianTax(parseFloat(body.income),
                                                parseFloat(body.deductions),
                                                body.filingStatus, p)
            IN  [status |-> 200, success |-> TRUE,
                 data |-> OptimizationsList(parseFloat(body.income), taxCalc)]
  /\ UNCHANGED storeVars

(***************************************************************************)
(* RRSP savings on the other code paths                                    *)
(***************************************************************************)
\* An amount with two decimals, in cents
Cents(a) == a.w * 100 + a.f \div 100

\* Math.round of an amount given in 1/100000 dollars
RoundE5(x) == (x + 50000) \div 100000

\* The 'rrsp' branch of getEnhancedRuleBasedResponse: the figures it writes
\* into the message
ChatRrspAdvice(i) ==
  LET rrspRoom   == IF i > 0 THEN MathMin(Times(i, 1800), Money(31560))
                             ELSE Money(31560)
      taxSavings == IF i > 0 THEN Cents(rrspRoom) * getMarginalTaxRate(i)
                             ELSE 0
  IN  [responseType  |-> "rrsp_advice",
       hasAnalysis   |-> i > 0,
       rrspRoom      |-> rrspRoom,
       taxSavings    |-> RoundE5(taxSavings),
       marginalRate  |-> getMarginalTaxRate(i)]

\* taxCalculations.tsx calculateRRSPOptimization(income,
\* currentRRSPContribution); marginalRate in tenths of a percent
calculateRRSPOptimization(i, currentRRSPContribution) ==
  LET maxRRSPContribution == MathMin(Times(i, 1800), Money(rrspLimit))
      current == Money(currentRRSPContribution)
      additionalContribution ==
        IF Leq(current, maxRRSPContribution)
        THEN Minus(maxRRSPContribution, current)
        ELSE Money(0)
      marginalRate ==
        IF i > 246752 THEN 330 + 100
        ELSE IF i > 173205 THEN 290 + 100
        ELSE IF i > 111733 THEN 260 + 100
        ELSE IF i > 55867 THEN 205 + 100
        ELSE 150 + 100
  IN  [maxContribution |-> MathRound(maxRRSPContribution),
       taxSavings      |-> RoundE5(Cents(additionalContribution) * marginalRate),
       marginalRate    |-> marginalRate]

\* RRSP contributions already made, as passed to calculateRRSPOptimization
CurrentContributions == {0, 5000}

\* The chatbot answers a message about RRSPs for a profile
ChatRrspQuestion(i) ==
  /\ endpoint = "idle"
  /\ endpoint' = "chatbot_rrsp"
  /\ request' = [income |-> i]
  /\ result' = ChatRrspAdvice(i)
  /\ UNCHANGED storeVars

\* The frontend computes the RRSP optimization of an income
FrontendRrspOptimization(i, c) ==
  /\ endpoint = "idle"
  /\ endpoint' = "frontend_rrsp"
  /\ request' = [income |-> i, currentRRSPContribution |-> c]
  /\ result' = calculateRRSPOptimization(i, c)
  /\ UNCHANGED storeVars

(***************************************************************************)
(* Form components: calculateTax of TaxForms.tsx and of the TaxCalculator  *)
(* component, evaluated on every render from the form fields               *)
(***************************************************************************)
\* Math.min((income - 3500) * cppRate, (maxCppEarnings - 3500) * cppRate)
ComponentCpp(i) ==
  MathMin(Times(i - 3500, cppRate), Times(maxCppEarnings - 3500, cppRate))

\* The body shared word for word by the two components
ComponentCalculateTax(taxFormData) ==
  LET i      == ParseFloatOrZero(taxFormData.income)
      d      == ParseFloatOrZero(taxFormData.deductions)
      totalDeductions == IntMax(d, basicPersonalAmount)
      t      == IntMax(0, i - totalDeductions)
      fed    == ServerFederalTax(t)
      prov   == Times(t, 1000)
      cpp    == ComponentCpp(i)
      ei     == MathMin(Times(i, eiRate), Times(maxEiEarnings, eiRate))
      total  == Plus(Plus(Plus(fed, prov), cpp), ei)
  IN  [tax             |-> MathRound(total),
       taxableIncome   |-> t,
       \* unrounded (total / income) * 100, kept as the exact fraction
       effectiveRate   |-> IF i > 0 THEN [total |-> total, income |-> i]
                                    ELSE [total |-> Money(0), income |-> 1],
       estimatedRefund |-> IntMax(0, MathRound(Minus(Times(i, 1800), total))),
       federalTax      |-> MathRound(fed),
       provincialTax   |-> MathRound(prov),
       cppContribution |-> MathRound(cpp),
       eiContribution  |-> MathRound(ei)]

\* TaxForms.tsx: const taxResults = calculateTax()
TaxFormsCalculateTax(taxFormData) == ComponentCalculateTax(taxFormData)

\* TaxCalculator component: const taxResults = calculateTax()
TaxCalculatorCalculateTax(taxFormData) == ComponentCalculateTax(taxFormData)

\* The TaxForms component renders with the given form fields
TaxFormsRender(fi, fd) ==
  /\ endpoint = "idle"
  /\ endpoint' = "taxforms"
  /\ request' = [taxFormData |-> [income |-> fi, deductions |-> fd]]
  /\ result' = TaxFormsCalculateTax(request'.taxFormData)
  /\ UNCHANGED storeVars

\* The TaxCalculator component renders with the given form fields
TaxCalculatorRender(fi, fd) ==
  /\ endpoint = "idle"
  /\ endpoint' = "taxcalculator"
  /\ request' = [taxFormData |-> [income |-> fi, deductions |-> fd]]
  /\ result' = TaxCalculatorCalculateTax(request'.taxFormData)
  /\ UNCHANGED storeVars

\* The response has been sent (res.json) or shown; every request is served
\* from scratch, nothing of it is kept
ResponseDelivered ==
  /\ endpoint # "idle"
  /\ endpoint' = "idle"
  /\ request' = NoRequest
  /\ result' = NoResult
  /\ UNCHANGED storeVars

Next ==
  \/ \E i \in Incomes, d \in Deductions, fs \in FilingStatuses, p \in Provinces :
       PostTaxCalculate(i, d, fs, p)
  \/ \E fi \in Fields(Incomes), fd \in Fields(Deductions), p \in FrontendProvinces :
       FrontendCalculate(fi, fd, p)
  \/ \E i \in Incomes, p \in Provinces : ChatCalculate(i, p)
  \/ \E i \in Incomes, d \in Deductions, pl \in ProvinceLists :
       CompareProvinces(i, d, "single", pl)
  \/ \E body \in Bodies, p \in Provinces : PostTaxCalculateBody(body, p)
  \/ \E body \in Bodies, p \in Provinces : PostOptimizations(body, p)
  \/ \E i \in Incomes : ChatRrspQuestion(i)
  \/ \E i \in Incomes, c \in CurrentContributions :
       FrontendRrspOptimization(i, c)
  \/ \E fi \in Fields(Incomes), fd \in Fields(Deductions) :
       TaxFormsRender(fi, fd)
  \/ \E fi \in Fields(Incomes), fd \in Fields(Deductions) :
       TaxCalculatorRender(fi, fd)
  \/ ResponseDelivered

Spec == Init /\ [][Next]_vars

(***************************************************************************)
(* Accounts: POST /api/auth/register and PUT /api/user/profile on the      *)
(* in-memory users array (backend/server.js)                               *)
(***************************************************************************)
\* Texts are sequences of characters
AnnName == <<"A", "n", "n">>

ZedName == <<" ", "Z", "e", "d">>

BlankName == <<" ">>

GoodPassword == <<"s", "e", "c", "r", "e", "t">>

ShortPassword == <<"a", "b", "c">>

PlainPassword == <<"p", "l", "a", "i", "n", "1">>

\* An id that is not the one generateId gave the user
ForeignId == 99

RECURSIVE TrimStart(_)
TrimStart(s) ==
  IF Len(s) > 0 /\ s[1] = " " THEN TrimStart(Tail(s)) ELSE s

RECURSIVE TrimEnd(_)
TrimEnd(s) ==
  IF Len(s) > 0 /\ s[Len(s)] = " " THEN TrimEnd(SubSeq(s, 1, Len(s) - 1)) ELSE s

\* express-validator trim()
Trim(s) == TrimEnd(TrimStart(s))

Email(local, domain) == local \o <<"@">> \o domain

RegisterEmails ==
  {Email(<<"a">>, <<"x", ".", "c", "a">>), Email(<<"A">>, <<"X", ".", "c", "a">>),
   Email(<<"b">>, <<"x", ".", "c", "a">>), <<"a", "x", ".", "c", "a">>}

\* express-validator isEmail(): one "@" after a non-empty local part, and a
\* domain with a dot inside it
isEmail(e) ==
  \E k \in 2..(Len(e) - 1) :
    /\ e[k] = "@"
    /\ \A j \in 1..Len(e) : j # k => e[j] \notin {"@", " "}
    /\ \E j \in (k + 2)..(Len(e) - 1) : e[j] = "."

UpperToLower ==
  [A |-> "a", B |-> "b", C |-> "c", D |-> "d", E |-> "e", F |-> "f",
   G |-> "g", H |-> "h", I |-> "i", J |-> "j", K |-> "k", L |-> "l",
   M |-> "m", N |-> "n", O |-> "o", P |-> "p", Q |-> "q", R |-> "r",
   S |-> "s", T |-> "t", U |-> "u", V |-> "v", W |-> "w", X |-> "x",
   Y |-> "y", Z |-> "z"]

toLowerCase(text) ==
  [k \in 1..Len(text) |->
     IF text[k] \in DOMAIN UpperToLower THEN UpperToLower[text[k]] ELSE text[k]]

\* express-validator normalizeEmail(): the address in lower case
normalizeEmail(e) == toLowerCase(e)

\* bcrypt.hash(password, 12): a text that is not the password
bcryptHash(password) == <<"$2a$12$">> \o password

RegisterBodies ==
  [name : {AnnName}, email : RegisterEmails, password : {GoodPassword}]
  \cup {[name |-> BlankName, email |-> Email(<<"b">>, <<"x", ".", "c", "a">>),
         password |-> GoodPassword],
        [name |-> AnnName, email |-> Email(<<"b">>, <<"x", ".", "c", "a">>),
         password |-> ShortPassword]}

\* The validation chain of POST /api/auth/register
RegisterBodyIsValid(body) ==
  /\ isEmail(body.email)
  /\ Len(body.password) >= 6
  /\ Len(Trim(body.name)) >= 1

\* findUserData({ email }): users.find(u => u.email === email)
EmailIsRegistered(email) == \E k \in 1..Len(users) : users[k].email = email

\* findIndex(u => u.id === id), 0 when there is none
FindIndexById(id) ==
  IF \E k \in 1..Len(users) : users[k].id = id
  THEN CHOOSE k \in 1..Len(users) :
         users[k].id = id /\ \A j \in 1..(k - 1) : users[j].id # id
  ELSE 0

\* generateId(): an id no stored user has (nine random characters of
\* Math.random; a collision is taken not to happen)
generateId ==
  CHOOSE i \in 1..(Len(users) + 1) : \A k \in 1..Len(users) : users[k].id # i

InFlight == {r \in RegistrationSlots : registrations[r] # NoRegistration}

\* const { password, ...userWithoutPassword } = user
WithoutPassword(user) == [f \in DOMAIN user \ {"password"} |-> user[f]]

\* POST /api/auth/register up to `await bcrypt.hash`: validation, then the
\* look-up of the email; the request is answered 400 or waits for the hash
RegisterLookup(r, body) ==
  /\ registrations[r] = NoRegistration
  /\ Len(users) + Cardinality(InFlight) < MaxUsers
  /\ IF RegisterBodyIsValid(body) /\ ~EmailIsRegistered(normalizeEmail(body.email))
     THEN /\ registrations' =
               [registrations EXCEPT ![r] =
                  [name |-> Trim(body.name), email |-> normalizeEmail(body.email),
                   password |-> body.password]]
          /\ UNCHANGED taxVars
     ELSE /\ endpoint' = "auth_register"
          /\ request' = body
          /\ result' = [status |-> 400, success |-> FALSE]
          /\ UNCHANGED registrations
  /\ UNCHANGED <<users, chatVars, client>>

\* POST /api/auth/register from the resolution of bcrypt.hash: the user is
\* appended (saveUserData) and the request answered 201
RegisterHashed(r) ==
  /\ registrations[r] # NoRegistration
  /\ LET newUser == [id |-> generateId,
                     name |-> registrations[r].name,
                     email |-> registrations[r].email,
                     password |-> bcryptHash(registrations[r].password),
                     province |-> "ON"]
     IN  /\ users' = Append(users, newUser)
         /\ endpoint' = "auth_register"
         /\ request' = registrations[r]
         /\ result' = [status |-> 201, success |-> TRUE,
                       token |-> [userId |-> newUser.id],
                       user |-> WithoutPassword(newUser)]
  /\ registrations' = [registrations EXCEPT ![r] = NoRegistration]
  /\ UNCHANGED <<chatVars, client>>

\* Bodies of PUT /api/user/profile: any JSON object
ProfileBodies ==
  {[name |-> ZedName], [province |-> "ZZ"], [id |-> ForeignId],
   [password |-> PlainPassword]}

profileProvinces ==
  {"AB", "BC", "MB", "NB", "NL", "NS", "NT", "NU", "ON", "PE", "QC", "SK", "YT"}

\* The validation chain of PUT /api/user/profile: every field is optional
ProfileBodyIsValid(body) ==
  /\ "email" \in DOMAIN body => isEmail(body.email)
  /\ "name" \in DOMAIN body => Len(Trim(body.name)) >= 1
  /\ "province" \in DOMAIN body => body.province \in profileProvinces

\* req.body after the sanitizers normalizeEmail() and trim()
SanitizedProfileBody(body) ==
  [f \in DOMAIN body |->
     IF f = "email" THEN normalizeEmail(body[f])
     ELSE IF f \in {"name", "phone"} THEN Trim(body[f])
     ELSE body[f]]

\* { ...a, ...b }
ObjectSpread(a, b) ==
  [f \in DOMAIN a \cup DOMAIN b |-> IF f \in DOMAIN b THEN b[f] ELSE a[f]]

\* Ids carried by the tokens presented: a stored user's, or a stale one
TokenUserIds == 1..MaxUsers

\* PUT /api/user/profile with a token for userId, in in-memory mode
UpdateProfile(userId, body) ==
  /\ endpoint' = "user_profile"
  /\ request' = [userId |-> userId, body |-> body]
  /\ LET userIndex == FindIndexById(userId)
     IN  IF ~ProfileBodyIsValid(body)
         THEN /\ result' = [status |-> 400, success |-> FALSE]
              /\ UNCHANGED users
         ELSE IF userIndex = 0
         THEN /\ result' = [status |-> 404, success |-> FALSE]
              /\ UNCHANGED users
         ELSE /\ users' = [users EXCEPT ![userIndex] =
                             ObjectSpread(users[userIndex],
                                          SanitizedProfileBody(body))]
              /\ result' = [status |-> 200, success |-> TRUE,
                            user |-> WithoutPassword(users'[userIndex])]
  /\ UNCHANGED <<registrations, chatVars, client>>

NextAccounts ==
  \/ \E r \in RegistrationSlots, body \in RegisterBodies : RegisterLookup(r, body)
  \/ \E r \in RegistrationSlots : RegisterHashed(r)
  \/ \E userId \in TokenUserIds, body \in ProfileBodies :
       UpdateProfile(userId, body)

SpecAccounts == Init /\ [][NextAccounts]_vars

(***************************************************************************)
(* Chatbot: CanadianTaxAI and EnhancedCanadianTaxAI (backend/ai-chatbot.js *)
(* in backend/server.js), POST /api/ai/chat and DELETE /api/ai/chat/clear. *)
(* No OPENAI_API_KEY is configured: openai is null and every answer comes  *)
(* from the rule-based responder, so generateResponse runs to its end      *)
(* without waiting.                                                        *)
(***************************************************************************)
\* "Keep only last 10 exchanges": if (history.length > 20)
historyLimit == 20

\* "Limit cache size": if (this.responseCache.size > 100)
cacheLimit == 100

\* substring(0, 50) of generateCacheKey
cacheKeyLength == 50

\* Bound: the chatbot requests made after the warm-up
MaxCalls == 3

ChatUsers == {"u1", "u2"}

\* The userContext the server builds for each user: two Ontario residents
\* with an income on file
ChatContext ==
  [u1 |-> [userName |-> "Alice", income |-> 75000, province |-> "ON"],
   u2 |-> [userName |-> "Bob", income |-> 52000, province |-> "ON"]]

HelloMessage == <<"h", "e", "l", "l", "o">>

RrspMessage == <<"r", "r", "s", "p">>

\* The n-th question of the warm-up: "q" followed by n, no keyword in it
WarmUpQuestion(n) == <<"q">> \o Digits(n)

\* String.includes
Includes(text, part) ==
  \E k \in 1..(Len(text) - Len(part) + 1) :
    SubSeq(text, k, k + Len(part) - 1) = part

\* EnhancedCanadianTaxAI.generateCacheKey(message, profile); IsKeyChar is a
\* character that replace(/[^a-z0-9\s]/g, '') keeps
generateCacheKey(message, profile) ==
  LET LowerLetters ==
        {"a", "b", "c", "d", "e", "f", "g", "h", "i", "j", "k", "l", "m", "n",
         "o", "p", "q", "r", "s", "t", "u", "v", "w", "x", "y", "z"}
      IsKeyChar(c) == c \in LowerLetters \/ IsDigit(c) \/ c = " "
      stripped == SelectSeq(toLowerCase(message), IsKeyChar)
  IN  [key |-> SubSeq(stripped, 1, IntMin(Len(stripped), cacheKeyLength)),
       province |-> IF "province" \in DOMAIN profile THEN profile.province
                                                     ELSE "ON",
       income |-> IF "income" \in DOMAIN profile /\ profile.income # 0
                  THEN "income" ELSE "noincome"]

enhancedGreetings ==
  {<<"h", "e", "l", "l", "o">>, <<"h", "i">>, <<"h", "e", "y">>,
   <<"g", "o", "o", "d", " ", "m", "o", "r", "n", "i", "n", "g">>,
   <<"g", "o", "o", "d", " ", "a", "f", "t", "e", "r", "n", "o", "o", "n">>,
   <<"g", "o", "o", "d", " ", "e", "v", "e", "n", "i", "n", "g">>,
   <<"b", "o", "n", "j", "o", "u", "r">>}

\* EnhancedCanadianTaxAI.isGreeting(message)
EnhancedIsGreeting(message) == \E g \in enhancedGreetings : Includes(message, g)

\* CanadianTaxAI.isGreeting(message): the same list without 'bonjour'
isGreeting(message) ==
  \E g \in enhancedGreetings \ {<<"b", "o", "n", "j", "o", "u", "r">>} : Includes(message, g)

\* parseFloat(profile.income) || 0, and profile.income || 0
ProfileIncome(profile) ==
  IF "income" \in DOMAIN profile THEN profile.income ELSE 0

\* EnhancedCanadianTaxAI.getEnhancedRuleBasedResponse(message, profile), for
\* greetings, <<"r", "r", "s", "p">> questions and questions that match no keyword; the text
\* of a message is kept as its template and the values written into it
getEnhancedRuleBasedResponse(message, profile) ==
  LET lowerMessage == toLowerCase(message)
      income == ProfileIncome(profile)
      province == IF "province" \in DOMAIN profile THEN profile.province
                                                     ELSE "ON"
      userName == IF "userName" \in DOMAIN profile THEN profile.userName
                                                     ELSE ""
  IN  IF EnhancedIsGreeting(lowerMessage)
      THEN [message |-> [template |-> "greeting",
                         userName |-> userName,
                         provinceName |-> getProvinceInfo(province).code,
                         income |-> IntMax(income, 0)],
            confidence |-> 95,
            responseType |-> "greeting"]
      ELSE IF Includes(lowerMessage, <<"r", "r", "s", "p">>)
      THEN [message |-> [template |-> "rrsp_advice",
                         analysis |-> ChatRrspAdvice(income)],
            confidence |-> 94,
            responseType |-> "rrsp_advice"]
      ELSE [message |-> [template |-> "general_help",
                         provinceName |->
                           IF "province" \in DOMAIN profile
                           THEN getProvinceInfo(profile.province).code ELSE ""],
            confidence |-> 85,
            responseType |-> "general_help"]

\* CanadianTaxAI.getRuleBasedResponse(message, profile), for the same
\* questions
getRuleBasedResponse(message, profile) ==
  LET lowerMessage == toLowerCase(message)
      income == ProfileIncome(profile)
  IN  IF isGreeting(lowerMessage)
      THEN [message |-> [template |-> "greeting", income |-> income],
            confidence |-> 95,
            responseType |-> "rule_based"]
      ELSE IF Includes(lowerMessage, <<"r", "r", "s", "p">>)
      THEN [message |-> [template |-> "rrsp_advice", income |-> income,
                         rrspRoom |-> MathMin(Times(income, 1800), Money(31560))],
            confidence |-> 92,
            responseType |-> "rule_based"]
      ELSE [message |-> [template |-> "general_help"],
            confidence |-> 80,
            responseType |-> "rule_based"]

\* updateUserProfile(userId, context); lastInteraction, a clock reading, is
\* left out
updateUserProfile(userProfiles, userId, context) ==
  LET existing == MapGet(userProfiles, userId, EmptyMap)
      count == IF "interactionCount" \in DOMAIN existing
               THEN existing.interactionCount ELSE 0
  IN  MapSet(userProfiles, userId,
             ObjectSpread(ObjectSpread(existing, context),
                          [interactionCount |-> count + 1]))

\* Variant: the history is never cut back
AppendExchange_NoSlice(history, message, response) ==
  history \o <<[role |-> "user", content |-> [text |-> message]],
               [role |-> "assistant", content |-> response.message]>>

\* history.push(user message, assistant message) and the cut to the last 20
\* messages; timestamps are left out
AppendExchange(history, message, response) ==
  LET pushed == history \o <<[role |-> "user", content |-> [text |-> message]],
                             [role |-> "assistant", content |-> response.message]>>
  IN  IF Len(pushed) > historyLimit
      THEN SubSeq(pushed, Len(pushed) - historyLimit + 1, Len(pushed))
      ELSE pushed

\* responseCache.get(cacheKey): the index of the entry, 0 when there is none
CacheIndex(cache, cacheKey) ==
  IF \E k \in 1..Len(cache) : cache[k].key = cacheKey
  THEN CHOOSE k \in 1..Len(cache) : cache[k].key = cacheKey
  ELSE 0

\* Variant: when the cache is over its limit the newest entry is dropped
CacheInsert_EvictNewest(cache, cacheKey, response) ==
  LET k == CacheIndex(cache, cacheKey)
      set == IF k = 0 THEN Append(cache, [key |-> cacheKey, value |-> response])
                      ELSE [cache EXCEPT ![k].value = response]
  IN  IF Len(set) > cacheLimit THEN SubSeq(set, 1, Len(set) - 1) ELSE set

\* responseCache.set(cacheKey, response), then the removal of
\* responseCache.keys().next().value when the size is over 100; the Map is
\* the sequence of its entries in insertion order
CacheInsert(cache, cacheKey, response) ==
  LET k == CacheIndex(cache, cacheKey)
      set == IF k = 0 THEN Append(cache, [key |-> cacheKey, value |-> response])
                      ELSE [cache EXCEPT ![k].value = response]
  IN  IF Len(set) > cacheLimit THEN Tail(set) ELSE set

\* EnhancedCanadianTaxAI.generateResponse(message, userId, userContext)
EnhancedGenerateResponse(message, userId, userContext) ==
  LET self == enhancedCanadianTaxAI
      history == MapGet(self.conversationHistory, userId, <<>>)
      userProfiles == updateUserProfile(self.userProfiles, userId, userContext)
      profile == MapGet(userProfiles, userId, EmptyMap)
      cacheKey == generateCacheKey(message, profile)
      hit == CacheIndex(self.responseCache, cacheKey)
      response == getEnhancedRuleBasedResponse(message, profile)
  IN  /\ endpoint' = "enhanced_chat"
      /\ request' = [message |-> message, userId |-> userId,
                     userContext |-> userContext]
      /\ IF hit # 0
         THEN /\ enhancedCanadianTaxAI' = [self EXCEPT !.userProfiles = userProfiles]
              /\ result' = ObjectSpread(self.responseCache[hit].value,
                                        [fromCache |-> TRUE])
         ELSE /\ enhancedCanadianTaxAI' =
                   [conversationHistory |->
                      MapSet(self.conversationHistory, userId,
                             AppendExchange(history, message, response)),
                    userProfiles |-> userProfiles,
                    responseCache |->
                      CacheInsert(self.responseCache, cacheKey, response)]
              /\ result' = ObjectSpread(response,
                                        [conversationId |-> userId,
                                         fromCache |-> FALSE])

\* CanadianTaxAI.generateResponse(message, userId, userContext): the new
\* state of the instance and the value returned
CanadianGenerateResponse(message, userId, userContext) ==
  LET self == canadianTaxAI
      history == MapGet(self.conversationHistory, userId, <<>>)
      userProfiles == updateUserProfile(self.userProfiles, userId, userContext)
      profile == MapGet(userProfiles, userId, EmptyMap)
      response == getRuleBasedResponse(message, profile)
  IN  [self |-> [conversationHistory |->
                   MapSet(self.conversationHistory, userId,
                          AppendExchange(history, message, response)),
                 userProfiles |-> userProfiles],
       aiResponse |-> ObjectSpread(response, [conversationId |-> userId])]

\* Questions asked before the counted requests: the first cacheLimit - 1
\* of them fill the cache, ten of them fill a conversation
EnhancedWarmUpSize == cacheLimit - 1

ChatWarmUpSize == historyLimit \div 2

\* No warm-up is under way: none has begun, or one has been completed, or
\* counted requests have been made
WarmUpSettled ==
  \/ calls > 0
  \/ /\ Len(enhancedCanadianTaxAI.responseCache) \in {0, EnhancedWarmUpSize}
     /\ Len(chatHistory) \in {0, ChatWarmUpSize}

\* The n-th warm-up question, put to the enhanced chatbot by u1
EnhancedWarmUp(n) ==
  /\ calls = 0
  /\ chatHistory = <<>>
  /\ Len(enhancedCanadianTaxAI.responseCache) = n - 1
  /\ EnhancedGenerateResponse(WarmUpQuestion(n), "u1", ChatContext["u1"])
  /\ UNCHANGED <<accountVars, chatHistory, canadianTaxAI, calls, client>>

\* A user puts a question to the enhanced chatbot
EnhancedAsk(userId, message) ==
  /\ WarmUpSettled
  /\ calls < MaxCalls
  /\ calls' = calls + 1
  /\ EnhancedGenerateResponse(message, userId, ChatContext[userId])
  /\ UNCHANGED <<accountVars, chatHistory, canadianTaxAI, client>>

\* EnhancedCanadianTaxAI.clearConversationHistory(userId)
EnhancedClearConversationHistory(userId) ==
  /\ WarmUpSettled
  /\ calls < MaxCalls
  /\ calls' = calls + 1
  /\ endpoint' = "enhanced_clear"
  /\ request' = [userId |-> userId]
  /\ result' = [returned |-> TRUE]
  /\ enhancedCanadianTaxAI' =
       [enhancedCanadianTaxAI EXCEPT
          !.conversationHistory = MapDelete(@, userId),
          !.userProfiles = MapDelete(@, userId)]
  /\ UNCHANGED <<accountVars, chatHistory, canadianTaxAI, client>>

\* POST /api/ai/chat in in-memory mode; id and timestamp of the stored
\* chatMessage are left out
PostChatRequest(userId, message) ==
  /\ endpoint' = "ai_chat"
  /\ request' = [userId |-> userId, message |-> message]
  /\ IF Len(Trim(message)) < 1
     THEN /\ result' = [status |-> 400, success |-> FALSE]
          /\ UNCHANGED <<chatHistory, canadianTaxAI>>
     ELSE LET generated == CanadianGenerateResponse(Trim(message), userId,
                                                    ChatContext[userId])
              aiResponse == generated.aiResponse
          IN  /\ canadianTaxAI' = generated.self
              /\ chatHistory' =
                   Append(chatHistory,
                          [userId |-> userId, message |-> Trim(message),
                           response |-> aiResponse.message,
                           confidence |-> aiResponse.confidence,
                           responseType |-> aiResponse.responseType])
              /\ result' = [status |-> 200, success |-> TRUE,
                            data |-> aiResponse]

\* The n-th warm-up question, posted by u1
ChatWarmUp(n) ==
  /\ calls = 0
  /\ enhancedCanadianTaxAI.responseCache = <<>>
  /\ Len(chatHistory) = n - 1
  /\ PostChatRequest("u1", WarmUpQuestion(n))
  /\ UNCHANGED <<accountVars, enhancedCanadianTaxAI, calls, client>>

\* A user posts a chat message
PostChat(userId, message) ==
  /\ WarmUpSettled
  /\ calls < MaxCalls
  /\ calls' = calls + 1
  /\ PostChatRequest(userId, message)
  /\ UNCHANGED <<accountVars, enhancedCanadianTaxAI, client>>

\* Variant: the loop runs forward over the array
SpliceLoop_Forward(array, i, userId) ==
  LET RECURSIVE Forward(_, _)
      Forward(a, j) ==
        IF j > Len(a) THEN a
        ELSE IF a[j].userId = userId
        THEN Forward(SubSeq(a, 1, j - 1) \o SubSeq(a, j + 1, Len(a)), j + 1)
        ELSE Forward(a, j + 1)
  IN  Forward(array, 1)

\* for (let i = chatHistory.length - 1; i >= 0; i--)
\*   if (chatHistory[i].userId === req.userId) chatHistory.splice(i, 1)
\* entered with the 1-based index i of the element visited next
RECURSIVE SpliceLoop(_, _, _)
SpliceLoop(array, i, userId) ==
  IF i < 1 THEN array
  ELSE IF array[i].userId = userId
  THEN SpliceLoop(SubSeq(array, 1, i - 1) \o SubSeq(array, i + 1, Len(array)),
                  i - 1, userId)
  ELSE SpliceLoop(array, i - 1, userId)

\* DELETE /api/ai/chat/clear in in-memory mode
DeleteChat(userId) ==
  /\ WarmUpSettled
  /\ calls < MaxCalls
  /\ calls' = calls + 1
  /\ endpoint' = "chat_clear"
  /\ request' = [userId |-> userId]
  /\ canadianTaxAI' =
       [canadianTaxAI EXCEPT !.conversationHistory = MapDelete(@, userId)]
  /\ chatHistory' = SpliceLoop(chatHistory, Len(chatHistory), userId)
  /\ result' = [status |-> 200, success |-> TRUE,
                clearedMessages |-> Len(chatHistory) - Len(chatHistory')]
  /\ UNCHANGED <<accountVars, enhancedCanadianTaxAI, client>>

\* The questions put to the enhanced chatbot: "hello", "Hello!", "rrsp"
EnhancedQuestions ==
  {HelloMessage, <<"H", "e", "l", "l", "o", "!">>, RrspMessage}

\* The messages posted: "hello" and a blank one
PostedMessages == {HelloMessage, <<" ">>}

NextChat ==
  \/ \E n \in 1..EnhancedWarmUpSize : EnhancedWarmUp(n)
  \/ \E userId \in ChatUsers, message \in EnhancedQuestions :
       EnhancedAsk(userId, message)
  \/ \E userId \in ChatUsers : EnhancedClearConversationHistory(userId)
  \/ \E n \in 1..ChatWarmUpSize : ChatWarmUp(n)
  \/ \E userId \in ChatUsers, message \in PostedMessages :
       PostChat(userId, message)
  \/ \E userId \in ChatUsers : DeleteChat(userId)

SpecChat == Init /\ [][NextChat]_vars

(***************************************************************************)
(* Client: apiService.makeRequest (frontend API service), the helper every *)
(* API call of the client goes through.  client.pc is the position of the  *)
(* call, client.retries its retries parameter, client.attempts the fetch   *)
(* attempts it has completed, each with what the attempt ended with.       *)
(***************************************************************************)
\* makeRequest(url, options, retries = 3)
defaultRetries == 3

\* What a fetch attempt ends with: a response with its status, the abort of
\* the 30 s timer, or the rejection of fetch with a TypeError whose message
\* depends on the browser
FetchOutcomes ==
  {[kind |-> "response", status |-> s] : s \in {200, 401, 413, 414, 500}} \cup
  {[kind |-> "error", name |-> "AbortError",
    message |-> <<"s", "i", "g", "n", "a", "l", " ", "i", "s", " ", "a", "b",
                  "o", "r", "t", "e", "d", " ", "w", "i", "t", "h", "o", "u",
                  "t", " ", "r", "e", "a", "s", "o", "n">>],
   [kind |-> "error", name |-> "TypeError",
    message |-> <<"T", "h", "e", " ", "n", "e", "t", "w", "o", "r", "k", " ",
                  "c", "o", "n", "n", "e", "c", "t", "i", "o", "n", " ", "w",
                  "a", "s", " ", "l", "o", "s", "t", ".">>],
   [kind |-> "error", name |-> "TypeError",
    message |-> <<"F", "a", "i", "l", "e", "d", " ", "t", "o", " ", "f", "e",
                  "t", "c", "h">>],
   [kind |-> "error", name |-> "TypeError",
    message |-> <<"N", "e", "t", "w", "o", "r", "k", "E", "r", "r", "o", "r",
                  " ", "w", "h", "e", "n", " ", "a", "t", "t", "e", "m", "p",
                  "t", "i", "n", "g", " ", "t", "o", " ", "f", "e", "t", "c",
                  "h", " ", "r", "e", "s", "o", "u", "r", "c", "e", ".">>]}

\* Variant: every error is retried while retries are left
ShouldRetry_AnyError(retries, error) == retries > 0

\* retries > 0 && (error.name === 'AbortError' ||
\*                 error.message.includes('network'))
ShouldRetry(retries, error) ==
  /\ retries > 0
  /\ \/ error.name = "AbortError"
     \/ Includes(error.message, <<"n", "e", "t", "w", "o", "r", "k">>)

\* An API function calls makeRequest(url, options): the first fetch starts
MakeRequest ==
  /\ client.pc \in {"idle", "returned", "thrown"}
  /\ client' = [pc |-> "fetching", retries |-> defaultRetries,
                attempts |-> <<>>]
  /\ UNCHANGED <<taxVars, accountVars, chatVars>>

\* The fetch of the current attempt ends with outcome: a response other
\* than 413 and 414 is returned; a 413 or 414 response is turned into an
\* Error inside the try block and, like a rejection of fetch, reaches the
\* catch block, which waits for a retry or throws
FetchSettled(outcome) ==
  LET error ==
        IF outcome.kind = "error" THEN outcome
        ELSE IF outcome.status = 413
        THEN [kind |-> "error", name |-> "Error",
              message |-> <<"R", "e", "q", "u", "e", "s", "t", " ", "p", "a",
                            "y", "l", "o", "a", "d", " ", "t", "o", "o", " ",
                            "l", "a", "r", "g", "e", ".", " ", "P", "l", "e",
                            "a", "s", "e", " ", "r", "e", "d", "u", "c", "e",
                            " ", "i", "n", "p", "u", "t", " ", "s", "i", "z",
                            "e", ".">>]
        ELSE [kind |-> "error", name |-> "Error",
              message |-> <<"U", "R", "L", " ", "t", "o", "o", " ", "l", "o",
                            "n", "g", ".", " ", "P", "l", "e", "a", "s", "e",
                            " ", "s", "i", "m", "p", "l", "i", "f", "y", " ",
                            "y", "o", "u", "r", " ", "r", "e", "q", "u", "e",
                            "s", "t", ".">>]
  IN  /\ client.pc = "fetching"
      /\ client' =
           [client EXCEPT
              !.attempts = Append(@, outcome),
              !.pc = IF outcome.kind = "response" /\ outcome.status \notin {413, 414}
                     THEN "returned"
                     ELSE IF ShouldRetry(client.retries, error)
                     THEN "waiting"
                     ELSE "thrown"]
      /\ UNCHANGED <<taxVars, accountVars, chatVars>>

\* The 1000 ms delay is over: makeRequest(url, options, retries - 1)
RetryDelayElapsed ==
  /\ client.pc = "waiting"
  /\ client' = [client EXCEPT !.pc = "fetching", !.retries = @ - 1]
  /\ UNCHANGED <<taxVars, accountVars, chatVars>>

NextClient ==
  \/ MakeRequest
  \/ \E outcome \in FetchOutcomes : FetchSettled(outcome)
  \/ RetryDelayElapsed

\* Every fetch settles, by the 30 s abort timer at the latest, and the
\* timer of the retry delay fires
SpecClientFair ==
  /\ Init
  /\ [][NextClient]_vars
  /\ WF_vars(\E outcome \in FetchOutcomes : FetchSettled(outcome))
  /\ WF_vars(RetryDelayElapsed)

(***************************************************************************)
(* Properties                                                              *)
(***************************************************************************)
\* The worked scenario: Ontario, single, income 75000, deductions 15705
WorkedScenario ==
  /\ endpoint = "server"
  /\ request = [income |-> 75000, deductions |-> 15705,
                filingStatus |-> "single", province |-> "ON"]

\* Province codes the code knows (the keys of provinceData)
KnownProvinces == DOMAIN provinceData

C2_TotalMonotone ==
  endpoint = "server" =>
    \A i2 \in Incomes :
      i2 > request.income =>
        calculateCanadianTax(i2, request.deductions, request.filingStatus,
                             request.province).tax >= result.tax

\* C3: the worked scenario returns taxableIncome 59295, federalTax 9083,
\* provincialTax 2718, marginalRate 20.5, rrspRoom 13500 and tfsaRoom 7000.
C3_WorkedScenarioIncomeTax ==
  WorkedScenario =>
    /\ result.taxableIncome = 59295
    /\ result.federalTax = 9083
    /\ result.provincialTax = 2718
    /\ result.marginalRate = 205
    /\ result.rrspRoom = 13500
    /\ result.tfsaRoom = 7000

\* C3 witness: the worked scenario has been served.
C3_Witness == WorkedScenario /\ result.federalTax = 9083

\* C4: the worked scenario returns cppContribution 4055, eiContribution
\* 1505, total tax 17361 and an effective rate of 23.15 percent.
C4_WorkedScenarioContributions ==
  WorkedScenario =>
    /\ result.cppContribution = 4055
    /\ result.eiContribution = 1505
    /\ result.tax = 17361
    /\ result.effectiveRate = 2315

\* C5: a request with an unrecognized province code gets the result of the
\* same request for Ontario, in every field.
C5_UnknownProvinceIsOntario ==
  (endpoint = "server" /\ request.province \notin KnownProvinces) =>
    result = calculateCanadianTax(request.income, request.deductions,
                                  request.filingStatus, "ON")

\* C6: at each federal threshold T the formula of the bracket ending at T
\* and the formula of the next bracket give the same unrounded tax at T.
C6_FederalContinuity ==
  endpoint = "server" =>
    \A k \in 1..Len(FederalThresholds) :
      result.taxableIncome = FederalThresholds[k] =>
        FederalBracketFormula(k, FederalThresholds[k])
          = FederalBracketFormula(k + 1, FederalThresholds[k])

\* C7: the iterative per-bracket sum of the frontend and the closed form of
\* the server give the same federal tax for every taxable income.
C7_FederalFormsAgree ==
  endpoint = "server" =>
    /\ calculateFederalTax(result.taxableIncome)
         = ServerFederalTax(result.taxableIncome)
    /\ AppCalculateFederalTax(result.taxableIncome)
         = ServerFederalTax(result.taxableIncome)

\* C8: for every income, however large, the returned CPP contribution is at
\* most the configured maximum (4055) and the returned EI contribution at
\* most the configured maximum (1505), on every code path.
C8_ContributionsCapped ==
  LET Capped == /\ result.cppContribution <= cppMaxContribution
                /\ result.eiContribution <= eiMaxContribution
  IN  /\ endpoint \in {"server", "frontend"} => Capped
      /\ (endpoint = "chatbot" /\ result.responseType = "tax_calculation")
           => Capped

\* C8 witness: the server served a huge income and capped both contributions.
C8_Witness ==
  /\ endpoint = "server"
  /\ request.income >= HugeIncome
  /\ result.cppContribution <= cppMaxContribution
  /\ result.eiContribution <= eiMaxContribution

\* C9: for every income >= 10,000,000 the returned cppContribution is the
\* configured CPP cap 4055 and the returned eiContribution the EI cap 1505.
C9_CapSaturation ==
  (endpoint = "server" /\ request.income >= HugeIncome) =>
    /\ result.cppContribution = cppMaxContribution
    /\ result.eiContribution = eiMaxContribution

\* C10: with income 0, whatever the deductions, filing status and province,
\* taxableIncome, federalTax, provincialTax, cppContribution and
\* eiContribution are all 0.
C10_ZeroIncome ==
  (endpoint = "server" /\ request.income = 0) =>
    /\ result.taxableIncome = 0
    /\ result.federalTax = 0
    /\ result.provincialTax = 0
    /\ result.cppContribution = 0
    /\ result.eiContribution = 0

\* C10 witness: the server served a request with income 0 and a deduction.
C10_Witness ==
  /\ endpoint = "server"
  /\ request.income = 0
  /\ request.deductions > 0
  /\ result.cppContribution = 0

\* C11 (as stated): the returned rrspRoom never exceeds 31560 and equals
\* income * 0.18 whenever that product is below the maximum (server result
\* and the frontend's maxContribution).
C11_RrspRoomExact ==
  LET Exact(i, r) ==
        /\ r <= rrspLimit
        /\ i * 18 < rrspLimit * 100 => r * 100 = i * 18
  IN  /\ endpoint = "server" => Exact(request.income, result.rrspRoom)
      /\ endpoint = "frontend_rrsp" =>
           Exact(request.income, result.maxContribution)

\* C11 (amended): the returned rrspRoom is min(income * 0.18, 31560) rounded
\* to the nearest whole dollar, halves up: it never exceeds 31560, it is
\* 31560 when income * 0.18 reaches the maximum, and otherwise it is the
\* whole number r with r - 0.5 <= income * 0.18 < r + 0.5.
C11_RrspRoomRounded ==
  LET Rounded(i, r) ==
        LET cents == i * 18
        IN  /\ r <= rrspLimit
            /\ cents >= rrspLimit * 100 => r = rrspLimit
            /\ cents < rrspLimit * 100 =>
                 (100 * r - 50 <= cents /\ cents < 100 * r + 50)
  IN  /\ endpoint = "server" => Rounded(request.income, result.rrspRoom)
      /\ endpoint = "frontend_rrsp" =>
           Rounded(request.income, result.maxContribution)

\* C11 witness: the server served an income whose 18% is below the maximum
\* and not a whole number of dollars, and returned the rounded room.
C11_Witness ==
  /\ endpoint = "server"
  /\ request.income * 18 < rrspLimit * 100
  /\ (request.income * 18) % 100 # 0
  /\ result.rrspRoom * 100 # request.income * 18

InvalidInput(body) ==
  \/ ~isNumeric(body.income)
  \/ ~isNumeric(body.deductions)
  \/ (isNumeric(body.income) /\ parseFloat(body.income) < 0)
  \/ (isNumeric(body.deductions) /\ parseFloat(body.deductions) < 0)
  \/ body.filingStatus \notin
       {"single", "married_joint", "married_separate", "head_of_household"}

\* C13: an invalid request (non-numeric or negative income or deductions,
\* unrecognized filing status, or a comparison of fewer than 2 or more than
\* 5 provinces) ends in a validation error and no calculation is run on it.
C13_InvalidInputRejected ==
  /\ (endpoint \in {"api_calculate", "api_optimizations"}
        /\ InvalidInput(request.body)) => result = ValidationErrors
  /\ (endpoint = "compare"
        /\ (Len(request.provinces) < 2 \/ Len(request.provinces) > 5))
       => result.error = "InvalidInputError"

\* C14: two calculations that differ only in the filing status (any two of
\* the four recognized values) return the same result in every field.
C14_FilingStatusPassThrough ==
  endpoint = "server" =>
    \A fs2 \in FilingStatuses :
      calculateCanadianTax(request.income, request.deductions, fs2,
                           request.province) = result

\* C14 witness: a joint return with tax to pay has been calculated.
C14_Witness ==
  /\ endpoint = "server"
  /\ request.filingStatus = "married_joint"
  /\ result.federalTax > 0

\* C15: for Ontario the server's calculateCanadianTax, the chatbot's
\* calculateProvincialTax and the frontend's calculateProvincialTax report
\* the same provincial tax for the same request.
C15_OneProvincialScheme ==
  (endpoint = "server" /\ request.province = "ON") =>
    /\ result.provincialTax
         = MathRound(ChatCalculateProvincialTax(request.income, "ON"))
    /\ result.provincialTax
         = MathRound(calculateProvincialTax(result.taxableIncome, "ontario"))

\* C16: for every income the server's calculateCanadianTax, the chatbot's
\* calculateCppEi and the frontend's calculateCPP compute the same CPP
\* contribution.
C16_OneCppCap ==
  endpoint = "server" =>
    /\ ServerCpp(request.income) = calculateCppEi(request.income).cpp
    /\ ServerCpp(request.income) = calculateCPP(request.income)

\* C17: the marginal rate returned for taxable income t is the rate of the
\* federal bracket [min, max) that contains t; at a threshold it is the rate
\* of the bracket that starts there.
C17_MarginalRateOfBracket ==
  endpoint = "server" =>
    /\ \A k \in 1..Len(TAX_BRACKETS_2024_federal) :
         LET b == TAX_BRACKETS_2024_federal[k]
         IN  (result.taxableIncome >= b.min
                /\ (b.max = Infinity \/ result.taxableIncome < b.max))
               => result.marginalRate * 10 = b.rate
    /\ result.marginalRate * 10
         = getTaxBracketInfo(result.taxableIncome).federalBracket.rate

\* RRSP savings as the specification defines them, for an income whose only
\* deduction is d: rrspRoom times the federal marginal rate at the taxable
\* income, rounded to whole dollars
ExpectedRrspSavings(i, d) ==
  RoundE5(Cents(RrspRoom(i)) * getMarginalRate(TaxableIncome(i, d)))

\* C18: wherever RRSP tax savings are computed (server optimizations,
\* chatbot RRSP advice, frontend RRSP optimization) they are rrspRoom times
\* the federal marginal rate at the taxable income, not at gross income and
\* without a provincial rate added.
C18_RrspSavingsAtTaxableIncome ==
  /\ (endpoint = "server" /\ request.income > 0) =>
       result.aiOptimizations.recommendedActions[1]
         = [rule |-> "rrsp",
            amount |-> ExpectedRrspSavings(request.income, request.deductions)]
  /\ (endpoint = "chatbot_rrsp" /\ request.income > 0) =>
       result.taxSavings = ExpectedRrspSavings(request.income, 0)
  /\ (endpoint = "frontend_rrsp" /\ request.currentRRSPContribution = 0) =>
       result.taxSavings = ExpectedRrspSavings(request.income, 0)

\* The rule an entry of an optimization list stands for
RuleOf(entry) ==
  IF "rule" \in DOMAIN entry THEN entry.rule
  ELSE CASE entry.category = "RRSP Contribution" -> "rrsp"
         [] entry.category = "TFSA Utilization" -> "tfsa"
         [] entry.category = "Home Office Deduction" -> "homeOffice"
         [] OTHER -> "medical"

RulesOf(list) == [k \in 1..Len(list) |-> RuleOf(list[k])]

\* The rules that fire for an income, in declaration order
ExpectedRules(i) ==
  (IF i * 18 > 0 THEN <<"rrsp">> ELSE <<>>)
  \o (IF tfsaRoom > 0 THEN <<"tfsa">> ELSE <<>>)
  \o (IF i > 30000 THEN <<"homeOffice">> ELSE <<>>)
  \o (IF i > 40000 THEN <<"medical">> ELSE <<>>)

\* A request to POST /api/ai/optimizations that was accepted and whose
\* amounts are not negative
AcceptedOptimizations ==
  /\ endpoint = "api_optimizations"
  /\ result.status = 200
  /\ parseFloat(request.body.income) >= 0
  /\ parseFloat(request.body.deductions) >= 0

\* C19: the list of recommended actions holds the RRSP rule iff
\* rrspRoom > 0, the TFSA rule iff tfsaRoom > 0, the home-office rule iff
\* income > 30000 and the medical-expense rule iff income > 40000, in that
\* order (generateTaxOptimizations and POST /api/ai/optimizations).
C19_RulesIndependentOrdered ==
  /\ endpoint = "server" =>
       RulesOf(result.aiOptimizations.recommendedActions)
         = ExpectedRules(request.income)
  /\ AcceptedOptimizations =>
       RulesOf(result.data) = ExpectedRules(parseFloat(request.body.income))

\* The savings the rules add up to for an income and a taxable income, in
\* 1/100000 dollars: rrspRoom * marginalRate / 100, tfsaRoom * 0.06 * 0.25,
\* a flat 400 and a flat 200
ExpectedSavingsE5(i, t) ==
  (IF i * 18 > 0 THEN Cents(RrspRoom(i)) * getMarginalRate(t) ELSE 0)
  + (IF tfsaRoom > 0 THEN tfsaRoom * 1500 ELSE 0)
  + (IF i > 30000 THEN 400 * 100000 ELSE 0)
  + (IF i > 40000 THEN 200 * 100000 ELSE 0)

\* C20: potentialSavings is the sum of the savings of the rules that fire
\* (in whole dollars), and the home-office rule is valued at a flat 400 in
\* every optimization list the code produces.
C20_SavingsAdditiveFlat ==
  /\ endpoint = "server" =>
       result.aiOptimizations.potentialSavings
         = RoundE5(ExpectedSavingsE5(request.income, result.taxableIncome))
  /\ AcceptedOptimizations =>
       \A k \in 1..Len(result.data) :
         RuleOf(result.data[k]) = "homeOffice" => result.data[k].savings = 400

\* The unrounded totalTaxAndContributions of the served request
UnroundedTotal ==
  LET t == TaxableIncome(request.income, request.deductions)
  IN  Plus(Plus(Plus(ServerFederalTax(t),
                     ServerProvincialTax(t, request.province)),
                ServerCpp(request.income)),
           ServerEi(request.income))

\* r hundredths of a percent is x / i * 100 rounded to two decimals:
\* (r - 1/2) * i <= x * 10000 < (r + 1/2) * i, halves rounding up
IsRateOf(r, x, i) ==
  /\ Leq(Times(i, 2 * r - 1), Plus(x, x))
  /\ ~Leq(Times(i, 2 * r + 1), Plus(x, x))

\* C21 (as stated): for income > 0 the returned effective rate is the
\* returned (rounded) total tax divided by income, times 100, to two
\* decimals; it is 0 when income = 0.
C21_EffectiveRateOfReturnedTax ==
  endpoint = "server" =>
    IF request.income > 0
    THEN IsRateOf(result.effectiveRate, Money(result.tax), request.income)
    ELSE result.effectiveRate = 0

\* C21 (amended): for income > 0 the returned effective rate is the total of
\* tax and contributions BEFORE it is rounded to whole dollars, divided by
\* income, times 100, rounded to two decimals; it is 0 when income = 0.
C21_EffectiveRateOfUnroundedTotal ==
  endpoint = "server" =>
    IF request.income > 0
    THEN IsRateOf(result.effectiveRate, UnroundedTotal, request.income)
    ELSE result.effectiveRate = 0

\* Income 100: the total is 2.29 (EI only), returned as tax 2 and rate 2.29 %
C21_Witness ==
  /\ endpoint = "server"
  /\ request.income = 100
  /\ result.tax = 2
  /\ result.effectiveRate = 229

\* C22: every tax calculator returns cppContribution >= 0 for every income
\* >= 0, incomes below the 3500 CPP exemption included: the server's
\* calculateCanadianTax, the frontend's calculateCanadianTax (calculateCPP)
\* and calculateTax of the TaxCalculator and TaxForms components.
C22_CppNonNegative ==
  endpoint \in {"server", "frontend", "taxforms", "taxcalculator"} =>
    result.cppContribution >= 0

\* C23: after any interleaving of POST /api/auth/register requests the users
\* array never holds two users with the same email.
C23_EmailsUnique ==
  \A j, k \in 1..Len(users) : j # k => users[j].email # users[k].email

\* C25: a served PUT /api/user/profile leaves the id and the password hash
\* of every stored user as they were, whatever the body carries, and leaves
\* the records of the other users unchanged.
C25_ProfileUpdateFrame ==
  [][endpoint' = "user_profile" =>
       /\ Len(users') = Len(users)
       /\ \A k \in 1..Len(users) :
            /\ users'[k].id = users[k].id
            /\ users'[k].password = users[k].password
            /\ users[k].id # request'.userId => users'[k] = users[k]]_vars

\* C24: the response EnhancedCanadianTaxAI.generateResponse returns to a user
\* is made from that user's own profile: a greeting carries the user's own
\* name and income, RRSP advice is computed from the user's own income,
\* whatever other users asked before.
C24_ResponseFromOwnProfile ==
  endpoint = "enhanced_chat" =>
    /\ result.responseType = "greeting" =>
         /\ result.message.userName = request.userContext.userName
         /\ result.message.income = request.userContext.income
    /\ result.responseType = "rrsp_advice" =>
         result.message.analysis = ChatRrspAdvice(request.userContext.income)

\* The stored conversation of a user, empty when the Map has none
HistoryOf(conversationHistory, userId) ==
  MapGet(conversationHistory, userId, <<>>)

\* At most 20 messages, user and assistant taking turns
HistoryBounded(history) ==
  /\ Len(history) <= 20
  /\ \A k \in 1..Len(history) :
       history[k].role = IF k % 2 = 1 THEN "user" ELSE "assistant"

\* new is old with one more exchange, cut back to the 20 latest messages
ExchangeRecorded(old, new) ==
  /\ Len(new) = IntMin(Len(old) + 2, 20)
  /\ new[Len(new) - 1].role = "user"
  /\ new[Len(new)].role = "assistant"
  /\ SubSeq(new, 1, Len(new) - 2) = SubSeq(old, Len(old) - Len(new) + 3, Len(old))

\* The conversations of all users but userId are what they were
OthersKept(old, new, userId) ==
  \A u \in ChatUsers \ {userId} : HistoryOf(new, u) = HistoryOf(old, u)

\* C26: in both chatbot classes every stored conversation holds at most 20
\* messages in alternating user/assistant order; a generateResponse call
\* that records its exchange leaves the user with the previous messages
\* plus the new exchange, cut back to the 20 latest, and
\* clearConversationHistory(u) leaves u with no history and every other
\* user's history unchanged.
C26_HistoryBounded ==
  /\ [](\A u \in ChatUsers :
          /\ HistoryBounded(HistoryOf(canadianTaxAI.conversationHistory, u))
          /\ HistoryBounded(HistoryOf(enhancedCanadianTaxAI.conversationHistory, u)))
  /\ [][/\ (endpoint' = "enhanced_chat" /\ ~result'.fromCache) =>
            /\ ExchangeRecorded(
                 HistoryOf(enhancedCanadianTaxAI.conversationHistory, request'.userId),
                 HistoryOf(enhancedCanadianTaxAI'.conversationHistory, request'.userId))
            /\ OthersKept(enhancedCanadianTaxAI.conversationHistory,
                          enhancedCanadianTaxAI'.conversationHistory,
                          request'.userId)
        /\ (endpoint' = "ai_chat" /\ result'.status = 200) =>
            /\ ExchangeRecorded(
                 HistoryOf(canadianTaxAI.conversationHistory, request'.userId),
                 HistoryOf(canadianTaxAI'.conversationHistory, request'.userId))
            /\ OthersKept(canadianTaxAI.conversationHistory,
                          canadianTaxAI'.conversationHistory, request'.userId)
        /\ endpoint' = "enhanced_clear" =>
            /\ HistoryOf(enhancedCanadianTaxAI'.conversationHistory,
                         request'.userId) = <<>>
            /\ OthersKept(enhancedCanadianTaxAI.conversationHistory,
                          enhancedCanadianTaxAI'.conversationHistory,
                          request'.userId)
        /\ endpoint' = "chat_clear" =>
            /\ HistoryOf(canadianTaxAI'.conversationHistory, request'.userId) = <<>>
            /\ OthersKept(canadianTaxAI.conversationHistory,
                          canadianTaxAI'.conversationHistory,
                          request'.userId)]_vars

\* u1 has posted an eleventh question: its conversation stays at 20 messages
C26_Witness ==
  /\ endpoint = "ai_chat"
  /\ request.userId = "u1"
  /\ result.status = 200
  /\ calls >= 1
  /\ Len(HistoryOf(canadianTaxAI.conversationHistory, "u1")) = 20
  /\ Len(chatHistory) > 10

\* The object without its fromCache property
WithoutFromCache(object) == [f \in DOMAIN object \ {"fromCache"} |-> object[f]]

\* C27: the response cache never holds more than 100 entries; a call that
\* misses the cache appends its response as the newest entry and, when the
\* cache was full, removes exactly the earliest-inserted entry; a call that
\* hits the cache returns the stored response and changes neither the
\* cache nor the conversation history.
C27_CacheBounded ==
  /\ [](Len(enhancedCanadianTaxAI.responseCache) <= 100)
  /\ [][endpoint' = "enhanced_chat" =>
          LET old == enhancedCanadianTaxAI.responseCache
              new == enhancedCanadianTaxAI'.responseCache
          IN  IF result'.fromCache
              THEN /\ new = old
                   /\ enhancedCanadianTaxAI'.conversationHistory =
                        enhancedCanadianTaxAI.conversationHistory
                   /\ \E k \in 1..Len(old) :
                        old[k].value = WithoutFromCache(result')
              ELSE /\ Len(new) >= 1
                   /\ new[Len(new)].value.message = result'.message
                   /\ SubSeq(new, 1, Len(new) - 1) =
                        IF Len(old) = 100 THEN Tail(old) ELSE old]_vars

\* The cache was full and a new question has been answered: the first
\* warm-up question is gone, the second is now the oldest entry
C27_Witness ==
  /\ endpoint = "enhanced_chat"
  /\ ~result.fromCache
  /\ Len(enhancedCanadianTaxAI.responseCache) = 100
  /\ enhancedCanadianTaxAI.responseCache[1].key.key = <<"q", "2">>

\* C28: a served DELETE /api/ai/chat/clear leaves in chatHistory exactly the
\* entries of the other users, in their order, and reports clearedMessages
\* equal to the number of entries of the requesting user it removed.
C28_ClearIsPerUser ==
  [][endpoint' = "chat_clear" =>
       LET IsOthers(entry) == entry.userId # request'.userId
           mine == {k \in 1..Len(chatHistory) :
                      chatHistory[k].userId = request'.userId}
       IN  /\ chatHistory' = SelectSeq(chatHistory, IsOthers)
           /\ result'.clearedMessages = Cardinality(mine)]_vars

\* u2 has cleared its one message, which stood between messages of u1
C28_Witness ==
  /\ endpoint = "chat_clear"
  /\ request.userId = "u2"
  /\ result.clearedMessages = 1
  /\ Len(chatHistory) = 11

\* The fetch attempts the current call has made, the one under way included
Attempts == Len(client.attempts) + (IF client.pc = "fetching" THEN 1 ELSE 0)

\* The attempt ended with an abort or with an error whose message contains
\* 'network'
AbortOrNetwork(outcome) ==
  /\ outcome.kind = "error"
  /\ \/ outcome.name = "AbortError"
     \/ Includes(outcome.message, <<"n", "e", "t", "w", "o", "r", "k">>)

\* C29: a call makeRequest(url, options) makes at most 4 fetch attempts; it
\* goes on to a further attempt only when the attempt before ended with an
\* abort or with an error whose message contains 'network', and throws at
\* once after a 413 or 414 response; every call ends by returning a response
\* or by throwing.
C29_MakeRequestTerminates ==
  /\ [](Attempts <= 4)
  /\ [](client.pc = "waiting" =>
          AbortOrNetwork(client.attempts[Len(client.attempts)]))
  /\ [][(client.pc # "fetching" /\ client'.pc = "fetching"
           /\ client'.attempts # <<>>) =>
          /\ client.pc = "waiting"
          /\ AbortOrNetwork(client.attempts[Len(client.attempts)])]_vars
  /\ [][(client.pc = "fetching" /\ client'.pc # "fetching") =>
          LET last == client'.attempts[Len(client'.attempts)]
          IN  /\ (last.kind = "response" /\ last.status \in {413, 414}) =>
                   client'.pc = "thrown"
              /\ client'.pc = "returned" => last.kind = "response"]_vars
  /\ (client.pc = "fetching") ~> (client.pc \in {"returned", "thrown"})

\* Three timeouts and a lost connection: the fourth attempt is the last,
\* the call has thrown
C29_Witness ==
  /\ client.pc = "thrown"
  /\ Len(client.attempts) = 4
  /\ client.retries = 0
  /\ client.attempts[1].name = "AbortError"
  /\ client.attempts[4].kind = "error"
  /\ client.attempts[4].name = "TypeError"

\* The sum of the four returned, rounded amounts
SumOfReturnedFields ==
  result.federalTax + result.provincialTax + result.cppContribution
    + result.eiContribution

\* C30: in the result of the server's calculateCanadianTax, tax is the
\* unrounded sum of federal tax, provincial tax, CPP and EI rounded once to
\* whole dollars, and it differs from the sum of the four returned rounded
\* fields by at most 2.
C30_TotalRoundedOnce ==
  endpoint = "server" =>
    /\ result.tax = MathRound(UnroundedTotal)
    /\ result.tax - SumOfReturnedFields \in -2..2

\* A served calculation whose total is 2 away from the sum of its rounded
\* parts
C30_Witness ==
  /\ endpoint = "server"
  /\ result.tax - SumOfReturnedFields \in {-2, 2}

====
